---- MODULE Spec2Model ----
(***************************************************************************)
(* A model of the PLONK prover of internal/backend/bn256/plonk/prove.go.   *)
(*                                                                         *)
(* Field elements are residues modulo the prime P; slices are functions    *)
(* over 0..n-1 (Go's zero-based indexing is kept, so that the 4i+j         *)
(* addressing of the source reads the same here).  A Prove call is a       *)
(* sequence of steps, one per call made by Prove's body, so that several   *)
(* Prove calls sharing one PublicData can interleave.                      *)
(***************************************************************************)
EXTENDS Integers, Sequences, FiniteSets, TLC

(***************************************************************************)
(* Bounds of the model.                                                    *)
(***************************************************************************)
\* the witness of a single Prove call takes its values in 0..MaxVal
MaxVal == 2

\* the witnesses of interleaved Prove calls take their values in 0..MaxValConc
MaxValConc == 1

(***************************************************************************)
(* fr.Element: the scalar field.  The model uses the prime 97, for which   *)
(* 8 * Cardinality = 32 divides P - 1, as the cosets of the source need.   *)
(***************************************************************************)
P == 97

Fp == 0 .. (P - 1)

Add(a, b) == (a + b) % P

Sub(a, b) == (a - b + P) % P

Mul(a, b) == (a * b) % P

Square(a) == Mul(a, a)

RECURSIVE Exp(_, _)
Exp(a, n) ==
    IF n = 0 THEN 1
    ELSE LET half == Exp(a, n \div 2)
         IN  IF n % 2 = 0 THEN Square(half) ELSE Mul(a, Square(half))

\* fr.Element.Inverse: the inverse of zero is zero
Inverse(a) == IF a = 0 THEN 0 ELSE Exp(a, P - 2)

\* fr.Element.Div: z = x * y^-1
Div(a, b) == Mul(a, Inverse(b))

\* fr.Element.SetString on a decimal literal, given by its digits
RECURSIVE SetString(_)
SetString(digits) ==
    IF digits = <<>> THEN 0
    ELSE Add(Mul(SetString(SubSeq(digits, 1, Len(digits) - 1)), 10 % P),
             digits[Len(digits)])

(***************************************************************************)
(* The package-level challenges set by init().                             *)
(***************************************************************************)
zeta == SetString(<<2,9,3,8,0,9,2,8,3,9,2,3,8,2,7,4,2,8,3>>)

vBundle == SetString(<<9,8,7,5,4,5,6,7,8>>)

gamma == SetString(<<8,2,7,8,2,6,3,8,2,6>>)

alpha == SetString(<<2,5,6,7,8,3,2,3,4,3,4>>)

(***************************************************************************)
(* Slices.                                                                 *)
(***************************************************************************)
\* a nil slice
Nil == <<>>

\* make([]fr.Element, n)
Make(n) == [i \in 0 .. (n - 1) |-> 0]

Length(a) == Cardinality(DOMAIN a)

\* copy(dst, src): the first min(len(dst), len(src)) elements
Copy(dst, src) == [i \in DOMAIN dst |-> IF i \in DOMAIN src THEN src[i] ELSE dst[i]]

\* bn256.Poly.Eval: Horner evaluation of a coefficient-form polynomial
RECURSIVE Horner(_, _, _)
Horner(poly, x, k) ==
    IF k < 0 THEN 0
    ELSE IF k = Length(poly) - 1 THEN poly[k]
    ELSE Add(Mul(Horner(poly, x, k + 1), x), poly[k])

Eval(poly, x) == IF Length(poly) = 0 THEN 0 ELSE Horner(poly, x, 0)

(***************************************************************************)
(* fft.Domain, FFT, FFTInverse, BitReverse.                                *)
(***************************************************************************)
RECURSIVE Log2(_)
Log2(n) == IF n <= 1 THEN 0 ELSE 1 + Log2(n \div 2)

RECURSIVE RevBits(_, _)
RevBits(i, bits) ==
    IF bits = 0 THEN 0
    ELSE (i % 2) * (2 ^ (bits - 1)) + RevBits(i \div 2, bits - 1)

\* the index i with its log2(n) bits reversed
BitRev(i, n) == RevBits(i, Log2(n))

\* fft.BitReverse: the slice in bit-reversed index order
BitReverse(a) == [i \in DOMAIN a |-> a[BitRev(i, Length(a))]]

\* domain.FFT(a, fft.DIF, coset): coefficient form, natural order, to the
\* values at FinerGenerator^coset * Generator^i, in bit-reversed order
FFT(domain, a, coset) ==
    LET shift == Exp(domain.FinerGenerator, coset)
    IN  [j \in DOMAIN a |->
            Eval(a, Mul(shift, Exp(domain.Generator, BitRev(j, Length(a)))))]

\* domain.FFTInverse(a, fft.DIF, coset): the values at
\* FinerGenerator^coset * Generator^i, natural order, to the coefficients,
\* in bit-reversed order
FFTInverse(domain, a, coset) ==
    LET n        == Length(a)
        shiftInv == Inverse(Exp(domain.FinerGenerator, coset))
        genInv   == Inverse(domain.Generator)
        nInv     == Inverse(n % P)
        coeff(k) == Mul(Mul(Exp(shiftInv, k), nInv), Eval(a, Exp(genInv, k)))
    IN  [j \in DOMAIN a |-> coeff(BitRev(j, n))]

(***************************************************************************)
(* cs.SparseR1CS: the constraints and assertions of a circuit.  A row      *)
(* names the variable ids of its L, R, O wires and its gate coefficients:  *)
(* ql*l + qr*r + qm*l*r + qo*o + qk = 0.                                   *)
(***************************************************************************)
Row(L, R, O, ql, qr, qm, qo, qk) ==
    [L |-> L, R |-> R, O |-> O,
     ql |-> ql % P, qr |-> qr % P, qm |-> qm % P, qo |-> qo % P, qk |-> qk % P]

\* inputs a, b, c are variables 0, 1, 2.
\* one constraint a*b = x3, one assertion x3 + a = c, two padded rows
CircuitPadded ==
    [NbInputs    |-> 3,
     NbVariables |-> 4,
     Constraints |-> <<Row(0, 1, 3, 0, 0, 1, P - 1, 0)>>,
     Assertions  |-> <<Row(3, 0, 2, 1, 1, 0, P - 1, 0)>>]

\* two constraints a*b = x3, x3 + c + 1 = x4, two assertions x4 + a = b,
\* b - c - 1 = 0: the rows fill the domain
CircuitFull ==
    [NbInputs    |-> 3,
     NbVariables |-> 5,
     Constraints |-> <<Row(0, 1, 3, 0, 0, 1, P - 1, 0),
                       Row(3, 2, 4, 1, 1, 0, P - 1, 1)>>,
     Assertions  |-> <<Row(4, 0, 1, 1, 1, 0, P - 1, 0),
                       Row(1, 2, 0, 1, P - 1, 0, 0, P - 1)>>]

Circuits == {CircuitPadded, CircuitFull}

\* the value of a row's gate on a solution
GateValue(row, sol) ==
    Add(Add(Add(Add(Mul(row.ql, sol[row.L]), Mul(row.qr, sol[row.R])),
                Mul(row.qm, Mul(sol[row.L], sol[row.R]))),
            Mul(row.qo, sol[row.O])),
        row.qk)

\* spr.Solve: the inputs come from the witness, each constraint in order
\* gives its O variable; assertions are only checked, and Prove drops
\* the error
RECURSIVE SolveFrom(_, _, _)
SolveFrom(spr, sol, k) ==
    IF k > Len(spr.Constraints) THEN sol
    ELSE LET row  == spr.Constraints[k]
             rest == GateValue(row, [sol EXCEPT ![row.O] = 0])
         IN  SolveFrom(spr,
                       [sol EXCEPT ![row.O] = Div(Sub(0, rest), row.qo)],
                       k + 1)

Solve(spr, witness) ==
    SolveFrom(spr,
              [v \in 0 .. (spr.NbVariables - 1) |->
                  IF v < spr.NbInputs THEN witness[v] ELSE 0],
              1)

\* every constraint and every assertion holds on the solution
Satisfied(spr, sol) ==
    /\ \A k \in 1 .. Len(spr.Constraints) : GateValue(spr.Constraints[k], sol) = 0
    /\ \A k \in 1 .. Len(spr.Assertions) : GateValue(spr.Assertions[k], sol) = 0

(***************************************************************************)
(* PublicRaw: the preprocessed data of a circuit, as the setup leaves it.  *)
(***************************************************************************)
\* DomainNum.Cardinality: the number of rows, padded to a power of two
N == 4

\* a generator of the subgroup of order 8 * N
FinerGenerator == 19

DomainNum ==
    [Cardinality    |-> N,
     Generator      |-> Exp(FinerGenerator, 8),
     FinerGenerator |-> FinerGenerator]

DomainH ==
    [Cardinality    |-> 4 * N,
     Generator      |-> Exp(FinerGenerator, 2),
     FinerGenerator |-> FinerGenerator]

\* Shifter[0], a value u with 1, u, u^2 in three cosets of the domain
Shifter0 == 5

\* Lagrange form over DomainNum to coefficient form
Canonical(a) == BitReverse(FFTInverse(DomainNum, a, 0))

\* row i of the circuit: constraints, then assertions, then dummy rows
RowAt(spr, i) ==
    IF i < Len(spr.Constraints) THEN spr.Constraints[i + 1]
    ELSE IF i < Len(spr.Constraints) + Len(spr.Assertions)
         THEN spr.Assertions[i - Len(spr.Constraints) + 1]
         ELSE Row(0, 0, 0, 0, 0, 0, 0, 0)

\* the variable at wire position pos: l of rows 0..N-1, then r, then o
VarAt(spr, pos) ==
    LET row == RowAt(spr, pos % N)
    IN  CASE pos \div N = 0 -> row.L
          [] pos \div N = 1 -> row.R
          [] OTHER -> row.O

\* the copy-constraint permutation: each position goes to the next
\* position of the same variable, the last one back to the first
Sigma(spr, pos) ==
    LET same  == {q \in 0 .. (3 * N - 1) : VarAt(spr, q) = VarAt(spr, pos)}
        after == {q \in same : q > pos}
        Min(S) == CHOOSE m \in S : \A q \in S : m <= q
    IN  IF after = {} THEN Min(same) ELSE Min(after)

\* the identity of position pos: gen^i, u*gen^i or u^2*gen^i
Support(shifter, pos) ==
    LET g == Exp(DomainNum.Generator, pos % N)
    IN  CASE pos \div N = 0 -> g
          [] pos \div N = 1 -> Mul(shifter[0], g)
          [] OTHER -> Mul(shifter[1], g)

Setup(spr) ==
    LET rows    == 0 .. (N - 1)
        shifter == <<Shifter0, Square(Shifter0)>>
        Shifter == [k \in 0 .. 1 |-> shifter[k + 1]]
        LS(w)   == [i \in rows |-> Support(Shifter, Sigma(spr, w * N + i))]
    IN  [DomainNum |-> DomainNum,
         DomainH   |-> DomainH,
         Ql  |-> Canonical([i \in rows |-> RowAt(spr, i).ql]),
         Qr  |-> Canonical([i \in rows |-> RowAt(spr, i).qr]),
         Qm  |-> Canonical([i \in rows |-> RowAt(spr, i).qm]),
         Qo  |-> Canonical([i \in rows |-> RowAt(spr, i).qo]),
         Qk  |-> Canonical([i \in rows |-> RowAt(spr, i).qk]),
         LS1 |-> LS(0), LS2 |-> LS(1), LS3 |-> LS(2),
         CS1 |-> Canonical(LS(0)),
         CS2 |-> Canonical(LS(1)),
         CS3 |-> Canonical(LS(2)),
         Shifter |-> Shifter]

(***************************************************************************)
(* ComputeLRO: the solution on the L, R, O wires of each row, in Lagrange  *)
(* form.  The three loops of the source, in order.                         *)
(***************************************************************************)
RECURSIVE LoopRows(_, _, _, _, _)
LoopRows(lro, rows, solution, offset, i) ==
    IF i >= Len(rows) THEN lro
    ELSE LoopRows([l |-> [lro.l EXCEPT ![offset + i] = solution[rows[i + 1].L]],
                   r |-> [lro.r EXCEPT ![offset + i] = solution[rows[i + 1].R]],
                   o |-> [lro.o EXCEPT ![offset + i] = solution[rows[i + 1].O]]],
                  rows, solution, offset, i + 1)

\* the padding loop left out: the dummy rows keep the zero of make
LoopPaddingSkipped(lro, solution, offset, s, i) == lro

RECURSIVE LoopPadding(_, _, _, _, _)
LoopPadding(lro, solution, offset, s, i) ==
    IF i >= s - offset THEN lro
    ELSE LoopPadding([l |-> [lro.l EXCEPT ![offset + i] = solution[0]],
                      r |-> [lro.r EXCEPT ![offset + i] = solution[0]],
                      o |-> [lro.o EXCEPT ![offset + i] = solution[0]]],
                     solution, offset, s, i + 1)

ComputeLRO(spr, publicData, solution) ==
    LET s      == publicData.DomainNum.Cardinality
        lro0   == [l |-> Make(s), r |-> Make(s), o |-> Make(s)]
        lro1   == LoopRows(lro0, spr.Constraints, solution, 0, 0)
        offset == Len(spr.Constraints)
        lro2   == LoopRows(lro1, spr.Assertions, solution, offset, 0)
        lro3   == LoopPadding(lro2, solution, offset + Len(spr.Assertions), s, 0)
    IN  [l |-> lro3.l, r |-> lro3.r, o |-> lro3.o, solution |-> solution]

(***************************************************************************)
(* ComputeZ: the permutation accumulator, in Lagrange form.                *)
(***************************************************************************)
\* u[0], u[1], u[2] before the loop
ComputeZShifts(publicData) ==
    [k \in 0 .. 2 |->
        CASE k = 0 -> 1
          [] k = 1 -> publicData.Shifter[0]
          [] OTHER -> Square(publicData.Shifter[1])]

\* f[0] after line 131 at row i, for the u of that iteration
ComputeZNumerator(l, r, o, u, i) ==
    Mul(Mul(Add(Add(l[i], u[0]), gamma), Add(Add(r[i], u[1]), gamma)),
        Add(Add(o[i], u[2]), gamma))

\* g[0] after line 132 at row i
ComputeZDenominator(l, r, o, publicData, i) ==
    Mul(Mul(Add(Add(l[i], publicData.LS1[i]), gamma),
            Add(Add(r[i], publicData.LS2[i]), gamma)),
        Add(Add(o[i], publicData.LS3[i]), gamma))

RECURSIVE LoopZ(_, _, _, _, _, _, _)
LoopZ(z, u, l, r, o, publicData, i) ==
    IF i >= publicData.DomainNum.Cardinality - 1 THEN z
    ELSE LET f  == ComputeZNumerator(l, r, o, u, i)
             g  == ComputeZDenominator(l, r, o, publicData, i)
             u1 == [k \in 0 .. 2 |-> Mul(u[k], publicData.DomainNum.Generator)]
         IN  LoopZ([z EXCEPT ![i + 1] = Div(Mul(z[i], f), g)],
                   u1, l, r, o, publicData, i + 1)

ComputeZ(l, r, o, publicData) ==
    LET z0 == [Make(publicData.DomainNum.Cardinality) EXCEPT ![0] = 1]
    IN  LoopZ(z0, ComputeZShifts(publicData), l, r, o, publicData, 0)

(***************************************************************************)
(* evaluateCosets: poly on the four odd cosets, interleaved into res.      *)
(* The result names res and poly as the call leaves them.                  *)
(***************************************************************************)
\* evaluateCosets with evaluations[0] = poly in place of the copy of line
\* 302: the transforms of evaluations[0] run on the caller's slice
evaluateCosetsInPlace(poly, res, domain) ==
    LET c    == domain.Cardinality
        e1   == Copy(Make(c), poly)
        e2   == Copy(Make(c), poly)
        e3   == Copy(Make(c), poly)
        f0   == FFT(domain, FFT(domain, poly, 1), 5)
        f1   == FFT(domain, FFT(domain, e1, 3), 7)
        evaluations == <<BitReverse(f0), BitReverse(f1), BitReverse(e2), BitReverse(e3)>>
    IN  [res  |-> [m \in DOMAIN res |->
                      IF m < 4 * c THEN evaluations[(m % 4) + 1][m \div 4] ELSE res[m]],
         poly |-> evaluations[1]]

evaluateCosets(poly, res, domain) ==
    LET c    == domain.Cardinality
        e0   == Copy(Make(c), poly)
        e1   == Copy(Make(c), poly)
        e2   == Copy(Make(c), poly)
        e3   == Copy(Make(c), poly)
        \* lines 307-310: evaluations[0] and evaluations[1] are transformed
        \* twice, evaluations[2] and evaluations[3] never
        f0   == FFT(domain, FFT(domain, e0, 1), 5)
        f1   == FFT(domain, FFT(domain, e1, 3), 7)
        evaluations == <<BitReverse(f0), BitReverse(f1), BitReverse(e2), BitReverse(e3)>>
    IN  [res  |-> [m \in DOMAIN res |->
                      IF m < 4 * c THEN evaluations[(m % 4) + 1][m \div 4] ELSE res[m]],
         poly |-> poly]

(***************************************************************************)
(* evalConstraints: ql.l + qr.r + qm.l.r + qo.o + k on the cosets.  The    *)
(* sum is written into evalL, and evalL is what is returned.               *)
(***************************************************************************)
evalConstraints(publicData, evalL, evalR, evalO) ==
    LET c4  == 4 * publicData.DomainNum.Cardinality
        cQl == evaluateCosets(publicData.Ql, Make(c4), publicData.DomainNum)
        cQr == evaluateCosets(publicData.Qr, Make(c4), publicData.DomainNum)
        cQm == evaluateCosets(publicData.Qm, Make(c4), publicData.DomainNum)
        cQo == evaluateCosets(publicData.Qo, Make(c4), publicData.DomainNum)
        cQk == evaluateCosets(publicData.Qk, Make(c4), publicData.DomainNum)
        acc(i) ==
            Add(Add(Add(Mul(cQl.res[i], evalL[i]), Mul(cQr.res[i], evalR[i])),
                    Mul(Mul(cQm.res[i], evalL[i]), evalR[i])),
                Mul(cQo.res[i], evalO[i]))
    IN  [evalL |-> [i \in DOMAIN evalL |->
                       IF i < c4 THEN Add(acc(i), cQk.res[i]) ELSE evalL[i]],
         ret   |-> "evalL",
         publicData |-> [publicData EXCEPT !.Ql = cQl.poly, !.Qr = cQr.poly,
                                           !.Qm = cQm.poly, !.Qo = cQo.poly,
                                           !.Qk = cQk.poly]]

(***************************************************************************)
(* evalIDCosets: id, shifter[0]*id, shifter[1]*id on the cosets.           *)
(***************************************************************************)
\* lines 188-197
RECURSIVE LoopIDInit(_, _, _)
LoopIDInit(id, publicData, i) ==
    IF i >= publicData.DomainNum.Cardinality THEN id
    ELSE LET v == Mul(id[4 * (i - 1)], publicData.DomainNum.Generator)
         IN  LoopIDInit([id EXCEPT ![4 * i] = v, ![4 * i + 1] = v,
                                   ![4 * i + 2] = v, ![4 * i + 3] = v],
                        publicData, i + 1)

\* lines 209-226
RECURSIVE LoopIDShift(_, _, _, _)
LoopIDShift(st, u, publicData, i) ==
    LET c == publicData.DomainNum.Cardinality
    IN  IF i >= c THEN st
        ELSE LET id1 == [st.id EXCEPT ![4 * i]     = Mul(@, u[0]),
                                      ![4 * i + 1] = Mul(@, u[1]),
                                      ![4 * i + 2] = Mul(@, u[2]),
                                      ![4 * i + 3] = Mul(@, u[3])]
                 s0  == publicData.Shifter[0]
                 s1  == publicData.Shifter[1]
             IN  LoopIDShift(
                    [id   |-> id1,
                     uid  |-> [st.uid EXCEPT ![4 * i]     = Mul(id1[4 * i], s0),
                                             ![4 * i + 1] = Mul(id1[4 * i + 1], s0),
                                             ![4 * i + 2] = Mul(id1[4 * i + 2], s0),
                                             ![4 * i + 3] = Mul(id1[4 * i + 3], s0)],
                     uuid |-> [st.uuid EXCEPT ![i]         = Mul(id1[i], s1),
                                              ![i + c]     = Mul(id1[i + c], s1),
                                              ![i + 2 * c] = Mul(id1[i + 2 * c], s1),
                                              ![i + 3 * c] = Mul(id1[i + 3 * c], s1)]],
                    u, publicData, i + 1)

evalIDCosets(publicData) ==
    LET c4  == 4 * publicData.DomainNum.Cardinality
        id0 == [m \in 0 .. (c4 - 1) |-> IF m < 4 THEN 1 ELSE 0]
        id1 == LoopIDInit(id0, publicData, 1)
        uu  == Square(publicData.DomainNum.FinerGenerator)
        u0  == publicData.DomainNum.FinerGenerator
        u1  == Mul(u0, uu)
        u2  == Mul(u1, uu)
        u3  == Mul(u2, uu)
        u   == [k \in 0 .. 3 |-> <<u0, u1, u2, u3>>[k + 1]]
    IN  LoopIDShift([id |-> id1, uid |-> Make(c4), uuid |-> Make(c4)],
                    u, publicData, 0)

(***************************************************************************)
(* evalConstraintOrdering: Z(uX)g1g2g3l - Z(X)f1f2f3l on the cosets.       *)
(***************************************************************************)
\* evalConstraintOrdering with the accumulators exchanged: Zu on the
\* identity factors, Z on the sigma factors
evalConstraintOrderingSwapped(publicData, z, zu, evalL, evalR, evalO) ==
    LET c4  == 4 * publicData.DomainNum.Cardinality
        cZ  == evaluateCosets(z, Make(c4), publicData.DomainNum)
        cZu == evaluateCosets(zu, Make(c4), publicData.DomainNum)
        cS1 == evaluateCosets(publicData.CS1, Make(c4), publicData.DomainNum)
        cS2 == evaluateCosets(publicData.CS2, Make(c4), publicData.DomainNum)
        cS3 == evaluateCosets(publicData.CS3, Make(c4), publicData.DomainNum)
        ids == evalIDCosets(publicData)
        f(i) == Mul(Mul(Mul(Mul(Add(Add(evalL[i], ids.id[i]), gamma),
                                Add(Add(evalR[i], ids.uid[i]), gamma)),
                            Add(Add(evalO[i], ids.uuid[i]), gamma)),
                        evalL[i]),
                    cZu.res[i])
        g(i) == Mul(Mul(Mul(Mul(Add(Add(evalL[i], cS1.res[i]), gamma),
                                Add(Add(evalR[i], cS2.res[i]), gamma)),
                            Add(Add(evalO[i], cS3.res[i]), gamma)),
                        evalL[i]),
                    cZ.res[i])
    IN  [res |-> [i \in 0 .. (c4 - 1) |-> Sub(f(i), g(i))],
         z   |-> cZ.poly,
         zu  |-> cZu.poly,
         publicData |-> [publicData EXCEPT !.CS1 = cS1.poly, !.CS2 = cS2.poly,
                                           !.CS3 = cS3.poly]]

evalConstraintOrdering(publicData, z, zu, evalL, evalR, evalO) ==
    LET c4  == 4 * publicData.DomainNum.Cardinality
        cZ  == evaluateCosets(z, Make(c4), publicData.DomainNum)
        cZu == evaluateCosets(zu, Make(c4), publicData.DomainNum)
        cS1 == evaluateCosets(publicData.CS1, Make(c4), publicData.DomainNum)
        cS2 == evaluateCosets(publicData.CS2, Make(c4), publicData.DomainNum)
        cS3 == evaluateCosets(publicData.CS3, Make(c4), publicData.DomainNum)
        ids == evalIDCosets(publicData)
        f(i) == Mul(Mul(Mul(Mul(Add(Add(evalL[i], ids.id[i]), gamma),
                                Add(Add(evalR[i], ids.uid[i]), gamma)),
                            Add(Add(evalO[i], ids.uuid[i]), gamma)),
                        evalL[i]),
                    cZ.res[i])
        g(i) == Mul(Mul(Mul(Mul(Add(Add(evalL[i], cS1.res[i]), gamma),
                                Add(Add(evalR[i], cS2.res[i]), gamma)),
                            Add(Add(evalO[i], cS3.res[i]), gamma)),
                        evalL[i]),
                    cZu.res[i])
    IN  [res |-> [i \in 0 .. (c4 - 1) |-> Sub(g(i), f(i))],
         z   |-> cZ.poly,
         zu  |-> cZu.poly,
         publicData |-> [publicData EXCEPT !.CS1 = cS1.poly, !.CS2 = cS2.poly,
                                           !.CS3 = cS3.poly]]

(***************************************************************************)
(* shiftZ: z to z(uX), both in Lagrange form.                              *)
(***************************************************************************)
shiftZ(z) ==
    LET n == Length(z)
    IN  [i \in DOMAIN z |-> IF i < n - 1 THEN z[i + 1] ELSE z[0]]

(***************************************************************************)
(* computeH: (constraintsInd + alpha.constraintOrdering) / Z, put in       *)
(* canonical form.                                                         *)
(***************************************************************************)
\* u[0..3] of lines 362-376
computeHDivisors(publicData) ==
    LET bExpo == publicData.DomainNum.Cardinality
        uu    == Square(publicData.DomainNum.FinerGenerator)
        u0    == Inverse(Exp(publicData.DomainNum.FinerGenerator, bExpo))
        u1    == Inverse(Exp(Mul(u0, uu), bExpo))
        u2    == Inverse(Exp(Mul(u1, uu), bExpo))
        u3    == Inverse(Exp(Mul(u2, uu), bExpo))
    IN  [k \in 0 .. 3 |-> <<u0, u1, u2, u3>>[k + 1]]

\* h after the loop of lines 380-385, before the inverse transform
computeHEvals(publicData, constraintsInd, constraintOrdering) ==
    LET c4 == 4 * publicData.DomainNum.Cardinality
        u  == computeHDivisors(publicData)
    IN  [i \in 0 .. (c4 - 1) |->
            Mul(Add(constraintsInd[i], Mul(alpha, constraintOrdering[i])), u[i % 4])]

computeH(publicData, constraintsInd, constraintOrdering) ==
    BitReverse(FFTInverse(publicData.DomainH,
                          computeHEvals(publicData, constraintsInd, constraintOrdering),
                          1))

(***************************************************************************)
(* The commitment scheme: opening proofs are opaque objects that record    *)
(* what was opened and where.                                              *)
(***************************************************************************)
BatchOpenSinglePoint(point, challenge, polys) ==
    [kind |-> "BatchOpeningProofSinglePoint", point |-> point,
     challenge |-> challenge, polys |-> polys]

Open(point, poly) ==
    [kind |-> "OpeningProof", point |-> point, polys |-> <<poly>>]

\* the zero value of an opening proof
NoOpening == [kind |-> "none", point |-> 0, polys |-> <<>>]

\* &Proof{}
EmptyProof ==
    [LROHZ |-> [k \in 0 .. 4 |-> 0], ZShift |-> 0,
     BatchOpenings |-> NoOpening, OpeningZShift |-> NoOpening]

(***************************************************************************)
(* Prove.  The state: the circuit, its PublicData (shared by every Prove   *)
(* call), and the locals of each Prove call.  constraintsInd holds the     *)
(* name of the buffer its slice shares ("evalL" once evalConstraints has   *)
(* returned); hEval is h of computeH before its inverse transform.         *)
(***************************************************************************)
VARIABLES spr, publicData, prover

vars == <<spr, publicData, prover>>

Provers == {1, 2}

Witnesses == [0 .. 2 -> 0 .. MaxVal]

Locals(pc, witness) ==
    [pc |-> pc, witness |-> witness, solution |-> Nil,
     l |-> Nil, r |-> Nil, o |-> Nil,
     evalL |-> Nil, evalR |-> Nil, evalO |-> Nil,
     constraintsInd |-> "nil",
     z |-> Nil, zu |-> Nil,
     constraintsOrdering |-> Nil,
     hEval |-> Nil, h |-> Nil,
     proof |-> EmptyProof, returned |-> FALSE, ret |-> EmptyProof]

\* lines 400-403
ProveComputeLRO(st, pd, c) ==
    LET solution == Solve(c, st.witness)
        out      == ComputeLRO(c, pd, solution)
    IN  [st |-> [st EXCEPT !.pc = "evaluateCosets", !.solution = out.solution,
                           !.l = out.l, !.r = out.r, !.o = out.o],
         pd |-> pd]

\* lines 406-411
ProveEvaluateCosets(st, pd, c) ==
    LET c4 == 4 * pd.DomainNum.Cardinality
        eL == evaluateCosets(pd.Ql, Make(c4), pd.DomainNum)
        eR == evaluateCosets(pd.Qr, Make(c4), pd.DomainNum)
        eO == evaluateCosets(pd.Qm, Make(c4), pd.DomainNum)
    IN  [st |-> [st EXCEPT !.pc = "evalConstraints", !.evalL = eL.res,
                           !.evalR = eR.res, !.evalO = eO.res],
         pd |-> [pd EXCEPT !.Ql = eL.poly, !.Qr = eR.poly, !.Qm = eO.poly]]

\* line 414
ProveEvalConstraints(st, pd, c) ==
    LET out == evalConstraints(pd, st.evalL, st.evalR, st.evalO)
    IN  [st |-> [st EXCEPT !.pc = "ComputeZ", !.evalL = out.evalL,
                           !.constraintsInd = out.ret],
         pd |-> out.publicData]

\* line 417
ProveComputeZ(st, pd, c) ==
    [st |-> [st EXCEPT !.pc = "shiftZ", !.z = ComputeZ(st.l, st.r, st.o, pd)],
     pd |-> pd]

\* line 420
ProveShiftZ(st, pd, c) ==
    [st |-> [st EXCEPT !.pc = "FFTInverseZ", !.zu = shiftZ(st.z)],
     pd |-> pd]

\* lines 423-426
ProveFFTInverseZ(st, pd, c) ==
    [st |-> [st EXCEPT !.pc = "evalConstraintOrdering",
                       !.z  = BitReverse(FFTInverse(pd.DomainNum, st.z, 0)),
                       !.zu = BitReverse(FFTInverse(pd.DomainNum, st.zu, 0))],
     pd |-> pd]

\* line 436
ProveEvalConstraintOrdering(st, pd, c) ==
    LET out == evalConstraintOrdering(pd, st.z, st.zu, st.evalL, st.evalR, st.evalO)
    IN  [st |-> [st EXCEPT !.pc = "computeH", !.constraintsOrdering = out.res,
                           !.z = out.z, !.zu = out.zu],
         pd |-> out.publicData]

\* line 439
ProveComputeH(st, pd, c) ==
    LET cInd == st[st.constraintsInd]
    IN  [st |-> [st EXCEPT !.pc = "FFTInverseLRO",
                           !.hEval = computeHEvals(pd, cInd, st.constraintsOrdering),
                           !.h     = computeH(pd, cInd, st.constraintsOrdering)],
         pd |-> pd]

\* lines 442-447
ProveFFTInverseLRO(st, pd, c) ==
    [st |-> [st EXCEPT !.pc = "open",
                       !.l = BitReverse(FFTInverse(pd.DomainNum, st.l, 0)),
                       !.r = BitReverse(FFTInverse(pd.DomainNum, st.r, 0)),
                       !.o = BitReverse(FFTInverse(pd.DomainNum, st.o, 0))],
     pd |-> pd]

\* lines 450-472
ProveOpen(st, pd, c) ==
    LET zzeta == Mul(zeta, pd.DomainNum.Generator)
        polys == <<st.l, st.r, st.o, st.h, st.z>>
    IN  [st |-> [st EXCEPT !.pc = "return",
                   !.proof = [LROHZ  |-> [k \in 0 .. 4 |-> Eval(polys[k + 1], zeta)],
                              ZShift |-> Eval(st.z, zzeta),
                              BatchOpenings |-> BatchOpenSinglePoint(zeta, vBundle, polys),
                              OpeningZShift |-> Open(zzeta, st.z)]],
         pd |-> pd]

\* line 474
ProveReturn(st, pd, c) ==
    [st |-> [st EXCEPT !.pc = "done", !.returned = TRUE, !.ret = EmptyProof],
     pd |-> pd]

\* a Prove call from its first line to its return, with nothing interleaved
Prove(c, pd, witness) ==
    LET s0  == [st |-> Locals("ComputeLRO", witness), pd |-> pd]
        s1  == ProveComputeLRO(s0.st, s0.pd, c)
        s2  == ProveEvaluateCosets(s1.st, s1.pd, c)
        s3  == ProveEvalConstraints(s2.st, s2.pd, c)
        s4  == ProveComputeZ(s3.st, s3.pd, c)
        s5  == ProveShiftZ(s4.st, s4.pd, c)
        s6  == ProveFFTInverseZ(s5.st, s5.pd, c)
        s7  == ProveEvalConstraintOrdering(s6.st, s6.pd, c)
        s8  == ProveComputeH(s7.st, s7.pd, c)
        s9  == ProveFFTInverseLRO(s8.st, s8.pd, c)
        s10 == ProveOpen(s9.st, s9.pd, c)
    IN  ProveReturn(s10.st, s10.pd, c)

(***************************************************************************)
(* Actions: prover p takes its next step.                                  *)
(***************************************************************************)
Commit(p, out) ==
    /\ prover' = [prover EXCEPT ![p] = out.st]
    /\ publicData' = out.pd
    /\ UNCHANGED spr

StepComputeLRO(p) ==
    /\ prover[p].pc = "ComputeLRO"
    /\ Commit(p, ProveComputeLRO(prover[p], publicData, spr))

StepEvaluateCosets(p) ==
    /\ prover[p].pc = "evaluateCosets"
    /\ Commit(p, ProveEvaluateCosets(prover[p], publicData, spr))

StepEvalConstraints(p) ==
    /\ prover[p].pc = "evalConstraints"
    /\ Commit(p, ProveEvalConstraints(prover[p], publicData, spr))

StepComputeZ(p) ==
    /\ prover[p].pc = "ComputeZ"
    /\ Commit(p, ProveComputeZ(prover[p], publicData, spr))

StepShiftZ(p) ==
    /\ prover[p].pc = "shiftZ"
    /\ Commit(p, ProveShiftZ(prover[p], publicData, spr))

StepFFTInverseZ(p) ==
    /\ prover[p].pc = "FFTInverseZ"
    /\ Commit(p, ProveFFTInverseZ(prover[p], publicData, spr))

StepEvalConstraintOrdering(p) ==
    /\ prover[p].pc = "evalConstraintOrdering"
    /\ Commit(p, ProveEvalConstraintOrdering(prover[p], publicData, spr))

StepComputeH(p) ==
    /\ prover[p].pc = "computeH"
    /\ Commit(p, ProveComputeH(prover[p], publicData, spr))

StepFFTInverseLRO(p) ==
    /\ prover[p].pc = "FFTInverseLRO"
    /\ Commit(p, ProveFFTInverseLRO(prover[p], publicData, spr))

StepOpen(p) ==
    /\ prover[p].pc = "open"
    /\ Commit(p, ProveOpen(prover[p], publicData, spr))

StepReturn(p) ==
    /\ prover[p].pc = "return"
    /\ Commit(p, ProveReturn(prover[p], publicData, spr))

Step(p) ==
    \/ StepComputeLRO(p)
    \/ StepEvaluateCosets(p)
    \/ StepEvalConstraints(p)
    \/ StepComputeZ(p)
    \/ StepShiftZ(p)
    \/ StepFFTInverseZ(p)
    \/ StepEvalConstraintOrdering(p)
    \/ StepComputeH(p)
    \/ StepFFTInverseLRO(p)
    \/ StepOpen(p)
    \/ StepReturn(p)

\* one Prove call
Init ==
    /\ spr \in Circuits
    /\ publicData = Setup(spr)
    /\ \E w \in Witnesses :
          prover = [p \in Provers |->
                       IF p = 1 THEN Locals("ComputeLRO", w) ELSE Locals("idle", w)]

Next == \E p \in Provers : Step(p)

Spec == Init /\ [][Next]_vars

\* two Prove calls on the same PublicData, interleaved step by step; the
\* second proves the witness of the first read backwards
Reversed(w) == [v \in DOMAIN w |-> w[2 - v]]

InitConc ==
    /\ spr \in Circuits
    /\ publicData = Setup(spr)
    /\ \E w \in [0 .. 2 -> 0 .. MaxValConc] :
          prover = [p \in Provers |->
                       Locals("ComputeLRO", IF p = 1 THEN w ELSE Reversed(w))]

SpecConc == InitConc /\ [][Next]_vars

(***************************************************************************)
(* The claims.                                                             *)
(***************************************************************************)
Rows == 0 .. (N - 1)

Cosets == 0 .. 3

\* the extended point of index 4i+j: Generator^i * FinerGenerator^(2j+1)
CosetPoint(i, j) ==
    Mul(Exp(DomainNum.Generator, i), Exp(DomainNum.FinerGenerator, 2 * j + 1))

\* the Prove calls that have reached one of the given places
At(p, places) == prover[p].pc \in places

\* the solution of call p satisfies the circuit
SatisfiedBy(p) == Satisfied(spr, Solve(spr, prover[p].witness))

\* the Proof that Prove builds in its locals, from the coefficient-form
\* polynomials L, R, O, H, Z of the call
PopulatedProof(st) ==
    LET zzeta == Mul(zeta, DomainNum.Generator)
    IN  [LROHZ  |-> [k \in 0 .. 4 |-> Eval(<<st.l, st.r, st.o, st.h, st.z>>[k + 1], zeta)],
         ZShift |-> Eval(st.z, zzeta),
         BatchOpenings |->
             BatchOpenSinglePoint(zeta, vBundle, <<st.l, st.r, st.o, st.h, st.z>>),
         OpeningZShift |-> Open(zzeta, st.z)]

\* C1: the Proof that Prove returns for a satisfied circuit is the populated
\* one: its LROHZ are the values of L, R, O, H, Z at zeta, its ZShift the
\* value of Z at zeta*Generator, its openings the commitment scheme's.
C1_ReturnsPopulatedProof ==
    \A p \in Provers :
        (prover[p].returned /\ SatisfiedBy(p)) =>
            prover[p].ret = PopulatedProof(prover[p])

\* the right-hand side of the quotient identity at the field point x
QuotientRHS(st, pd, x) ==
    LET L  == Eval(st.l, x)
        R  == Eval(st.r, x)
        O  == Eval(st.o, x)
        Z  == Eval(st.z, x)
        Zu == Eval(st.z, Mul(pd.DomainNum.Generator, x))
        gate == Add(Add(Add(Add(Mul(Eval(pd.Ql, x), L), Mul(Eval(pd.Qr, x), R)),
                            Mul(Eval(pd.Qm, x), Mul(L, R))),
                        Mul(Eval(pd.Qo, x), O)),
                    Eval(pd.Qk, x))
        f1f2f3 == Mul(Mul(Add(Add(L, x), gamma),
                          Add(Add(R, Mul(pd.Shifter[0], x)), gamma)),
                      Add(Add(O, Mul(pd.Shifter[1], x)), gamma))
        g1g2g3 == Mul(Mul(Add(Add(L, Eval(pd.CS1, x)), gamma),
                          Add(Add(R, Eval(pd.CS2, x)), gamma)),
                      Add(Add(O, Eval(pd.CS3, x)), gamma))
    IN  Add(gate, Mul(alpha, Sub(Mul(Mul(Zu, g1g2g3), L), Mul(Mul(Z, f1f2f3), L))))

\* C2: for a satisfied circuit, H(x)*(x^N - 1) equals the gate identity plus
\* alpha times the permutation identity at every field point x.
C2_QuotientIdentity ==
    \A p \in Provers :
        (At(p, {"open", "return", "done"}) /\ SatisfiedBy(p)) =>
            \A x \in Fp :
                Mul(Eval(prover[p].h, x), Sub(Exp(x, N), 1))
                    = QuotientRHS(prover[p], publicData, x)

\* res holds the values of poly at the extended points, index 4i+j for
\* row i on coset j
IsCosetEvaluation(res, poly) ==
    \A i \in Rows : \A j \in Cosets : res[4 * i + j] = Eval(poly, CosetPoint(i, j))

\* C3: after evaluateCosets(p, res, domain), res[4i+j] is the Horner value
\* of p at Generator^i * FinerGenerator^(2j+1), for every i and j.
C3_CosetEvaluationConsistency ==
    \A p \in Provers :
        At(p, {"evalConstraints"}) =>
            /\ IsCosetEvaluation(prover[p].evalL, publicData.Ql)
            /\ IsCosetEvaluation(prover[p].evalR, publicData.Qr)
            /\ IsCosetEvaluation(prover[p].evalO, publicData.Qm)

\* the numerator of row i with the wire shifts 1, Shifter[0], Shifter[1]
Numerator(st, pd, i) ==
    LET g == Exp(pd.DomainNum.Generator, i)
    IN  Mul(Mul(Add(Add(st.l[i], g), gamma),
                Add(Add(st.r[i], Mul(pd.Shifter[0], g)), gamma)),
            Add(Add(st.o[i], Mul(pd.Shifter[1], g)), gamma))

\* the denominator of row i
Denominator(st, pd, i) ==
    Mul(Mul(Add(Add(st.l[i], pd.LS1[i]), gamma),
            Add(Add(st.r[i], pd.LS2[i]), gamma)),
        Add(Add(st.o[i], pd.LS3[i]), gamma))

\* C4: for a satisfied circuit ComputeZ returns z of length N with z[0] = 1
\* and z[i+1] * denominator_i = z[i] * numerator_i for every i in 0..N-2,
\* the wire shifts being 1, Shifter[0] and Shifter[1].
C4_AccumulatorRecurrence ==
    \A p \in Provers :
        (At(p, {"shiftZ"}) /\ SatisfiedBy(p)) =>
            /\ Length(prover[p].z) = N
            /\ prover[p].z[0] = 1
            /\ \A i \in 0 .. (N - 2) :
                  Mul(prover[p].z[i + 1], Denominator(prover[p], publicData, i))
                      = Mul(prover[p].z[i], Numerator(prover[p], publicData, i))

\* ComputeLRO has returned and l, r, o are still in Lagrange form
LagrangeLRO ==
    {"evaluateCosets", "evalConstraints", "ComputeZ", "shiftZ", "FFTInverseZ",
     "evalConstraintOrdering", "computeH", "FFTInverseLRO"}

\* C5: with C constraints, A assertions and N >= C+A, the l, r, o of
\* ComputeLRO have length N; rows below C hold the solution at the
\* constraint's L, R, O ids, rows from C below C+A the solution at the
\* assertion's ids, the rows from C+A on solution[0]; the solution is the
\* one Solve returned.
C5_ComputeLROLayout ==
    \A p \in Provers :
        LET st  == prover[p]
            C   == Len(spr.Constraints)
            A   == Len(spr.Assertions)
            sol == Solve(spr, st.witness)
        IN  (At(p, LagrangeLRO) /\ N >= C + A) =>
                /\ Length(st.l) = N /\ Length(st.r) = N /\ Length(st.o) = N
                /\ \A i \in 0 .. (C - 1) :
                      /\ st.l[i] = sol[spr.Constraints[i + 1].L]
                      /\ st.r[i] = sol[spr.Constraints[i + 1].R]
                      /\ st.o[i] = sol[spr.Constraints[i + 1].O]
                /\ \A i \in C .. (C + A - 1) :
                      /\ st.l[i] = sol[spr.Assertions[i - C + 1].L]
                      /\ st.r[i] = sol[spr.Assertions[i - C + 1].R]
                      /\ st.o[i] = sol[spr.Assertions[i - C + 1].O]
                /\ \A i \in (C + A) .. (N - 1) :
                      st.l[i] = sol[0] /\ st.r[i] = sol[0] /\ st.o[i] = sol[0]
                /\ st.solution = sol

\* ComputeLRO has returned for a circuit with dummy rows and a solution
\* whose slot 0 is not zero
C5_Witness ==
    \E p \in Provers :
        /\ At(p, {"evaluateCosets"})
        /\ Len(spr.Constraints) + Len(spr.Assertions) < N
        /\ prover[p].solution[0] # 0
        /\ prover[p].l[N - 1] = prover[p].solution[0]

\* the wire value at position pos: l of rows 0..N-1, then r, then o
WireAt(st, pos) ==
    CASE pos \div N = 0 -> st.l[pos % N]
      [] pos \div N = 1 -> st.r[pos % N]
      [] OTHER -> st.o[pos % N]

\* the value LS1/LS2/LS3 hold for position pos
PermutedAt(pd, pos) ==
    CASE pos \div N = 0 -> pd.LS1[pos % N]
      [] pos \div N = 1 -> pd.LS2[pos % N]
      [] OTHER -> pd.LS3[pos % N]

\* any two positions that LS1/LS2/LS3 put next to each other in a cycle
\* hold the same value
RespectsCopyConstraints(st, pd) ==
    \A pos \in 0 .. (3 * N - 1) : \A q \in 0 .. (3 * N - 1) :
        PermutedAt(pd, pos) = Support(pd.Shifter, q) => WireAt(st, pos) = WireAt(st, q)

\* z[N-1] * numerator_{N-1} / denominator_{N-1}
GrandProduct(st, pd) ==
    Div(Mul(st.z[N - 1], Numerator(st, pd, N - 1)), Denominator(st, pd, N - 1))

\* C6: the accumulator of ComputeZ telescopes back to 1 over the full
\* domain exactly for the assignments that respect every copy constraint.
C6_TelescopesIffCopyConstraints ==
    \A p \in Provers :
        At(p, {"shiftZ"}) =>
            (RespectsCopyConstraints(prover[p], publicData)
                <=> GrandProduct(prover[p], publicData) = 1)

\* C7: Prove calls sharing one PublicData leave it as the setup made it, and
\* each call ends with the locals it ends with when it runs alone.
C7_PublicDataReadOnly ==
    /\ publicData = Setup(spr)
    /\ \A p \in Provers :
          At(p, {"done"}) => prover[p] = Prove(spr, Setup(spr), prover[p].witness).st

\* both calls have returned, having built different proofs
C7_Witness ==
    /\ \A p \in Provers : At(p, {"done"})
    /\ prover[1].proof # prover[2].proof

\* acc[k] * (L+a+gamma)(R+b+gamma)(O+c+gamma) * L at extended index k, over
\* the buffers evalL, evalR, evalO of the call; (a, b, c) are the sigma
\* factors s1, s2, s3 that evaluateCosets gives for CS1, CS2, CS3, or the
\* identity factors id, uid, uuid that evalIDCosets gives
OrderingTerm(st, pd, acc, factors, k) ==
    LET c4  == 4 * pd.DomainNum.Cardinality
        ids == evalIDCosets(pd)
        a   == IF factors = "sigma"
               THEN evaluateCosets(pd.CS1, Make(c4), pd.DomainNum).res ELSE ids.id
        b   == IF factors = "sigma"
               THEN evaluateCosets(pd.CS2, Make(c4), pd.DomainNum).res ELSE ids.uid
        c   == IF factors = "sigma"
               THEN evaluateCosets(pd.CS3, Make(c4), pd.DomainNum).res ELSE ids.uuid
        L   == st.evalL[k]
    IN  Mul(Mul(acc[k],
                Mul(Mul(Add(Add(L, a[k]), gamma), Add(Add(st.evalR[k], b[k]), gamma)),
                    Add(Add(st.evalO[k], c[k]), gamma))),
            L)

\* the coset evaluations of z and zu, as evalConstraintOrdering takes them
CosetZ(st, pd) ==
    evaluateCosets(st.z, Make(4 * pd.DomainNum.Cardinality), pd.DomainNum).res

CosetZu(st, pd) ==
    evaluateCosets(st.zu, Make(4 * pd.DomainNum.Cardinality), pd.DomainNum).res

\* the numerator and the denominator of ComputeZ at row i
RowNumerator(st, pd, i) ==
    ComputeZNumerator(st.l, st.r, st.o,
                      [k \in 0 .. 2 |->
                          Mul(ComputeZShifts(pd)[k], Exp(pd.DomainNum.Generator, i))],
                      i)

RowDenominator(st, pd, i) == ComputeZDenominator(st.l, st.r, st.o, pd, i)

\* z satisfies the recurrence of ComputeZ at row i, the last row wrapping
\* around to z[0]
RecurrenceAt(st, pd, i) ==
    Mul(st.z[(i + 1) % N], RowDenominator(st, pd, i))
        = Mul(st.z[i], RowNumerator(st, pd, i))

C9_DividesByVanishingPolynomial ==
    \A p \in Provers :
        LET st   == prover[p]
            cInd == st[st.constraintsInd]
        IN  At(p, {"FFTInverseLRO"}) =>
                \A i \in Rows : \A j \in Cosets :
                    LET divisor == Sub(Exp(CosetPoint(i, j), N), 1)
                    IN  /\ divisor # 0
                        /\ divisor = Sub(Exp(Exp(DomainNum.FinerGenerator, 2 * j + 1), N), 1)
                        /\ st.hEval[4 * i + j]
                              = Mul(Add(cInd[4 * i + j],
                                        Mul(alpha, st.constraintsOrdering[4 * i + j])),
                                    Inverse(divisor))

\* C10: evalIDCosets gives id[4i+j] = Generator^i * FinerGenerator^(2j+1),
\* uid[4i+j] = Shifter[0]*id[4i+j] and uuid[4i+j] = Shifter[1]*id[4i+j]
\* for every i and j.
C10_IDCosetsInterleaved ==
    \A p \in Provers :
        At(p, {"computeH"}) =>
            LET ids == evalIDCosets(publicData)
            IN  \A i \in Rows : \A j \in Cosets :
                    /\ ids.id[4 * i + j] = CosetPoint(i, j)
                    /\ ids.uid[4 * i + j] = Mul(publicData.Shifter[0], ids.id[4 * i + j])
                    /\ ids.uuid[4 * i + j] = Mul(publicData.Shifter[1], ids.id[4 * i + j])

\* evalL, evalR, evalO are filled and no callee has received them yet, or
\* evalConstraintOrdering is the next call to receive them
PassedWireBuffers == {"evalConstraints", "evalConstraintOrdering"}

\* C11: the evalL, evalR, evalO that Prove passes to evalConstraints and to
\* evalConstraintOrdering hold, at index 4i+j, the values at
\* Generator^i * FinerGenerator^(2j+1) of the polynomials interpolating
\* ComputeLRO's l, r, o over the domain.
C11_WireBuffersHoldWireEvaluations ==
    \A p \in Provers :
        At(p, PassedWireBuffers) =>
            /\ IsCosetEvaluation(prover[p].evalL, Canonical(prover[p].l))
            /\ IsCosetEvaluation(prover[p].evalR, Canonical(prover[p].r))
            /\ IsCosetEvaluation(prover[p].evalO, Canonical(prover[p].o))

\* the places of Prove after evalConstraints has returned and before the
\* locals go out of scope
AfterEvalConstraints ==
    {"ComputeZ", "shiftZ", "FFTInverseZ", "evalConstraintOrdering", "computeH",
     "FFTInverseLRO", "open", "return"}

\* C12: the call of evalConstraints leaves evalL, evalR, evalO as they were
\* and returns a buffer that is none of them; no later step of Prove changes
\* evalL or the contents of the returned buffer.
C12_EvalConstraintsFrame ==
    [][\A p \in Provers :
          /\ (prover[p].pc = "evalConstraints" /\ prover'[p].pc = "ComputeZ") =>
                /\ prover'[p].evalL = prover[p].evalL
                /\ prover'[p].evalR = prover[p].evalR
                /\ prover'[p].evalO = prover[p].evalO
                /\ prover'[p].constraintsInd \notin {"evalL", "evalR", "evalO"}
          /\ (prover[p].pc \in AfterEvalConstraints
                /\ prover'[p].pc \in AfterEvalConstraints) =>
                /\ prover'[p].evalL = prover[p].evalL
                /\ prover'[p].constraintsInd = prover[p].constraintsInd
                /\ prover'[p][prover'[p].constraintsInd]
                      = prover[p][prover[p].constraintsInd]]_vars

====
